---- MODULE Spec2Model ----
(***************************************************************************)
(* Model of tauri-invoke-http (src/src/lib.rs): the localhost HTTP bridge  *)
(* that stores each decoded request in a mutex-guarded map keyed by the    *)
(* success-callback id and answers it from the command's completion.       *)
(*                                                                         *)
(* Threads: the listener thread spawned by Invoke::start, and the contexts *)
(* in which the external dispatcher runs the completion closure (inline in *)
(* window.on_message, i.e. on the listener thread, or on a thread of its   *)
(* own).  A panic ends the thread it happens on; a panic raised while a    *)
(* MutexGuard is alive poisons the mutex.                                  *)
(***************************************************************************)
EXTENDS Integers, Sequences, FiniteSets, TLC

\* ------------------------------------------------------------- bounds
MaxConns == 2
MaxId == 2
MaxComps == 2

\* ------------------------------------------------------------- values
NoConn == 0
Free == 0
ListenerThread == -1

Hdr(f, v) == [field |-> f, value |-> v]

\* tiny_http HeaderField::equiv is an ASCII case-insensitive comparison.
Lower(s) ==
  CASE s = "Origin" -> "origin"
    [] s = "ORIGIN" -> "origin"
    [] s = "Content-Type" -> "content-type"
    [] OTHER -> s

Equiv(f, g) == Lower(f) = Lower(g)

\* headers().iter().find(|h| h.field.equiv(name)): the first match, or none.
FindHeader(hs, name) ==
  LET idx == {i \in 1..Len(hs) : Equiv(hs[i].field, name)}
  IN IF idx = {} THEN <<>>
     ELSE <<hs[CHOOSE i \in idx : \A j \in idx : i <= j]>>

Contains(seq, x) == \E i \in 1..Len(seq) : seq[i] = x

\* Variant: the Origin of the request is echoed without the allow-list check.
CorsOriginEcho(hs, allowed) ==
  LET origin == FindHeader(hs, "Origin")
  IN IF origin # <<>>
     THEN <<Hdr("Access-Control-Allow-Origin", origin[1].value)>>
     ELSE <<>>

\* Lines 30-36: the allow-list holds no "*".
CorsOriginNoWildcard(hs, allowed) ==
  LET origin == FindHeader(hs, "Origin")
  IN IF origin # <<>> /\ Contains(allowed, origin[1].value)
     THEN <<Hdr("Access-Control-Allow-Origin", origin[1].value)>>
     ELSE <<>>

\* Variant: only the first entry of the allow-list is compared with "*".
CorsOriginFirstEntry(hs, allowed) ==
  IF Len(allowed) > 0 /\ allowed[1] = "*"
  THEN <<Hdr("Access-Control-Allow-Origin", "*")>>
  ELSE CorsOriginNoWildcard(hs, allowed)

CorsOrigin(hs, allowed) ==
  IF Contains(allowed, "*")
  THEN <<Hdr("Access-Control-Allow-Origin", "*")>>
  ELSE CorsOriginNoWildcard(hs, allowed)

\* cors(request, r, allowed_origins): the headers it adds to the response.
cors(hs, allowed) ==
  CorsOrigin(hs, allowed)
    \o <<Hdr("Access-Control-Allow-Headers", "*"),
         Hdr("Access-Control-Allow-Methods", "POST, OPTIONS")>>

\* request.url().split('/'): the pieces between the '/' characters.
RECURSIVE Split(_)
Split(url) ==
  IF \A i \in 1..Len(url) : url[i] # "/" THEN <<url>>
  ELSE LET k == CHOOSE i \in 1..Len(url) :
                  url[i] = "/" /\ \A j \in 1..(i - 1) : url[j] # "/"
       IN <<SubSeq(url, 1, k - 1)>> \o Split(SubSeq(url, k + 1, Len(url)))

\* app.get_webview_window(label): the one window of the application.
Windows == {<<"m">>}

\* serde_json::from_str::<RecievedMessage>: the envelope, or a parse error.
ParseOk(body) == body.kind = "envelope"

\* Url::parse(origin): only an absolute URL parses.
UrlParseOk(s) == s \in {"http://a", "http://b"}

\* JSON values the dispatcher resolves to: the string "hi", {"code":1}.
JStr(s) == [t |-> "string", s |-> s]
JObj(s) == [t |-> "object", s |-> s]

\* serde_json::to_string: the JSON text of a value.
ToJsonString(v) ==
  CASE v = JStr("hi") -> "\"hi\""
    [] v = JObj("code1") -> "{\"code\":1}"
    [] OTHER -> "null"

\* Variant: the status does not depend on the outcome.
StatusAlwaysOk(o) == 200

\* let status: u16 = if response.is_ok() { 200 } else { 400 };
StatusOf(o) == IF o.kind = "err" THEN 400 ELSE 200

\* The match of lines 124-132: the response body.
BodyOf(o) ==
  CASE o.kind = "json" -> ToJsonString(o.json)
    [] o.kind = "raw" -> o.raw
    [] o.kind = "err" -> ToJsonString(o.json)

\* ------------------------------------------------------------- inputs
Methods == {"OPTIONS", "POST"}

Urls == {<<"/", "m">>, <<"/", "g">>}

HeaderLists ==
  { <<>>,
    <<Hdr("Origin", "http://a")>>,
    <<Hdr("ORIGIN", "http://b")>>,
    <<Hdr("Origin", "nourl")>>,
    <<Hdr("Content-Type", "text/plain"), Hdr("Origin", "http://a")>> }

Ids == 1..MaxId

\* The body is a stream the code reads at line 86 only: "unread" is the body
\* of a request whose handling never gets there.
Bodies ==
  {[kind |-> "unread", callback |-> 0, error |-> 0],
   [kind |-> "garbage", callback |-> 0, error |-> 0]}
    \cup {b \in [kind : {"envelope"}, callback : Ids, error : Ids] :
            b.callback # b.error}

HttpRequests ==
  [method : Methods, url : Urls, headers : HeaderLists, body : Bodies]

AllowLists == {<<"http://c", "http://a">>, <<"http://a", "*">>}

\* InvokeResponse::Ok(InvokeBody::Json), Ok(InvokeBody::Raw), Err(InvokeError).
Outcomes ==
  {[kind |-> "json", json |-> JStr("hi"), raw |-> ""],
   [kind |-> "raw", json |-> JStr(""), raw |-> "hi"],
   [kind |-> "err", json |-> JObj("code1"), raw |-> ""]}

\* -------------------------------------------------------------- state
VARIABLES
  allowed_origins, \* Invoke.allowed_origins
  requests,        \* Invoke.requests: callback id -> connection
  lock,            \* holder of the Mutex: Free, ListenerThread or a completion
  poisoned,        \* the Mutex's poison flag
  conns,           \* the requests received so far, by connection
  lpc,             \* where the listener thread is
  cur,             \* the connection the listener holds
  pending,         \* invocations the dispatcher has not completed yet
  comps,           \* the completion-closure calls made so far
  resp,            \* per connection, the responses written on it
  dropped,         \* connections dropped without a respond() call
  submitted,       \* connections whose invocation went to on_message
  called           \* UI callback slots the bootstrap script has invoked

vars ==
  <<allowed_origins, requests, lock, poisoned, conns, lpc, cur, pending,
    comps, resp, dropped, submitted, called>>

Init ==
  /\ allowed_origins \in AllowLists
  /\ requests = [i \in Ids |-> NoConn]
  /\ lock = Free
  /\ poisoned = FALSE
  /\ conns = <<>>
  /\ lpc = "accept"
  /\ cur = NoConn
  /\ pending = {}
  /\ comps = <<>>
  /\ resp = <<>>
  /\ dropped = {}
  /\ submitted = {}
  /\ called = {}

\* ----------------------------------------------------------- listener
Response(status, headers, body, ok) ==
  [status |-> status, headers |-> headers, body |-> body, delivered |-> ok]

WindowLabel(url) == Split(url)[2]

ContentType(hs) ==
  LET h == FindHeader(hs, "Content-Type")
  IN IF h = <<>> THEN "application/json" ELSE h[1].value

\* Lines 84-111: whether the request decodes into an InvokeRequest; every
\* failure is a panic (unimplemented!, expect, unwrap) on the listener thread.
Decodes(r) ==
  /\ ContentType(r.headers) = "application/json"
  /\ FindHeader(r.headers, "Origin") # <<>>
  /\ ParseOk(r.body)
  /\ UrlParseOk(FindHeader(r.headers, "Origin")[1].value)

\* Variant: the window lookup comes before the method check.
RouteLookupFirst(r) ==
  IF Len(Split(r.url)) < 2 THEN "panic"
  ELSE IF WindowLabel(r.url) \notin Windows THEN "notfound"
  ELSE IF r.method = "OPTIONS" THEN "preflight"
  ELSE IF Decodes(r) THEN "dispatch"
  ELSE "panic"

\* Variant: the decoding comes before the window lookup.
RouteDecodeFirst(r) ==
  IF r.method = "OPTIONS" THEN "preflight"
  ELSE IF Len(Split(r.url)) < 2 THEN "panic"
  ELSE IF ~Decodes(r) THEN "panic"
  ELSE IF WindowLabel(r.url) \notin Windows THEN "notfound"
  ELSE "dispatch"

\* The branch of the loop body a request takes (lines 66-111): the method
\* check comes first, then the window lookup, then the decoding.
Route(r) ==
  IF r.method = "OPTIONS" THEN "preflight"
  ELSE IF Len(Split(r.url)) < 2 THEN "panic"
  ELSE IF WindowLabel(r.url) \notin Windows THEN "notfound"
  ELSE IF Decodes(r) THEN "dispatch"
  ELSE "panic"

\* Whether handling r reaches request.as_reader().read_to_string (line 86).
ReadsBody(r) ==
  /\ r.method # "OPTIONS"
  /\ Len(Split(r.url)) >= 2
  /\ WindowLabel(r.url) \in Windows
  /\ ContentType(r.headers) = "application/json"

\* Response::empty(status), cors(...), request.respond(r).unwrap() on the
\* listener thread: an Err from respond panics.
ListenerRespond(r, status, ok) ==
  /\ resp' = Append(resp, <<Response(status, cors(r.headers, allowed_origins), "", ok)>>)
  /\ lpc' = IF ok THEN "accept" ELSE "dead"
  /\ UNCHANGED <<cur, dropped>>

\* A panic of the listener thread while it owns the request.
ListenerPanic(c) ==
  /\ resp' = Append(resp, <<>>)
  /\ lpc' = "dead"
  /\ dropped' = dropped \cup {c}
  /\ UNCHANGED cur

\* One pass of `for mut request in server.incoming_requests()` up to the
\* point where the decoded request is about to be stored (lines 63-112).
Recv(r, ok) ==
  /\ lpc = "accept"
  /\ Len(conns) < MaxConns
  /\ (r.body.kind # "unread") <=> ReadsBody(r)
  /\ conns' = Append(conns, r)
  /\ CASE Route(r) = "preflight" -> ListenerRespond(r, 200, ok)
       [] Route(r) = "notfound" -> ListenerRespond(r, 404, ok)
       [] Route(r) = "dispatch" ->
            /\ resp' = Append(resp, <<>>)
            /\ lpc' = "insert"
            /\ cur' = Len(conns) + 1
            /\ UNCHANGED dropped
       [] OTHER -> ListenerPanic(Len(conns) + 1)
  /\ UNCHANGED <<called, allowed_origins, submitted, requests, lock, poisoned, pending, comps>>

\* requests.lock().unwrap() of line 113: a poisoned mutex makes lock() return
\* Err, and the unwrap panics with the request still owned by the listener.
InsertLock ==
  /\ lpc = "insert"
  /\ lock = Free
  /\ IF poisoned
     THEN /\ lpc' = "dead"
          /\ dropped' = dropped \cup {cur}
          /\ cur' = NoConn
          /\ UNCHANGED lock
     ELSE /\ lpc' = "inserting"
          /\ lock' = ListenerThread
          /\ UNCHANGED <<cur, dropped>>
  /\ UNCHANGED <<called, allowed_origins, submitted, requests, poisoned, conns, pending, comps, resp>>

\* Variant: the exchange is keyed by the error-callback id.
ReqKeyError(c) == conns[c].body.error

\* let req_key = payload.callback.0;
ReqKey(c) == conns[c].body.callback

\* Variant: the map is left as it was, the request is stored later.
InsertedLater(store, id, c) == store

\* Variant: an entry already under the key is kept (first write wins).
InsertedIfAbsent(store, id, c) ==
  IF store[id] # NoConn THEN store ELSE [store EXCEPT ![id] = c]

\* HashMap::insert(key, value): the map afterwards; a value already under
\* the key is replaced.
Inserted(store, id, c) == [store EXCEPT ![id] = c]

\* Variant: the guard lives on after the statement, into on_message.
GuardKeptAfterInsert == ListenerThread

\* The holder of the mutex after line 113: the guard is a temporary of the
\* statement and is released at its end.
GuardAfterInsert == Free

\* HashMap::insert(req_key, request): the previous value under the key, if
\* any, is returned and dropped; the guard is released at the end of line 113.
Insert ==
  /\ lpc = "inserting"
  /\ lock = ListenerThread
  /\ requests' = Inserted(requests, ReqKey(cur), cur)
  /\ dropped' = IF requests[ReqKey(cur)] # NoConn
                THEN dropped \cup {requests[ReqKey(cur)]}
                ELSE dropped
  /\ lock' = GuardAfterInsert
  /\ lpc' = "submit"
  /\ UNCHANGED <<called, allowed_origins, submitted, poisoned, conns, cur, pending, comps, resp>>

\* A call of the completion closure: `callback` is known from the start, the
\* `response` argument is first read at line 118.
NoOutcome == [kind |-> "unread", json |-> JStr(""), raw |-> ""]

Completion(id, thread) ==
  [pc |-> "lock", id |-> id, outcome |-> NoOutcome, thread |-> thread,
   conn |-> NoConn, via |-> "start"]

\* A call of the closure responder() returned (line 151), with any id.
ResponderCall(id) == [Completion(id, "worker") EXCEPT !.via = "responder"]

\* Variant: the closure looks the exchange up under the error-callback id.
CompletionKeyError(callback, error) == error

\* |_webview, _cmd, response, callback, _error| ... remove(&callback.0): of
\* the two ids the dispatcher passes, the closure uses the first as the key.
CompletionKey(callback, error) == callback

\* window.on_message(payload, closure), lines 114-138: the invocation goes to
\* the dispatcher, which either keeps it for later or runs the closure before
\* on_message returns.
Submit(sync) ==
  /\ lpc = "submit"
  /\ IF sync
     THEN /\ Len(comps) < MaxComps
          /\ comps' = Append(comps,
               Completion(CompletionKey(conns[cur].body.callback,
                                        conns[cur].body.error), "listener"))
          /\ lpc' = "callback"
          /\ UNCHANGED pending
     ELSE /\ pending' = pending \cup
               {[callback |-> conns[cur].body.callback,
                 error |-> conns[cur].body.error, conn |-> cur]}
          /\ lpc' = "accept"
          /\ UNCHANGED comps
  /\ submitted' = submitted \cup {cur}
  /\ cur' = NoConn
  /\ UNCHANGED <<called, allowed_origins, requests, lock, poisoned, conns, resp, dropped>>

\* --------------------------------------------------------- dispatcher
\* The dispatcher completes a pending invocation on a thread of its own,
\* with the callback id of that invocation.
Deliver(inv) ==
  /\ inv \in pending
  /\ Len(comps) < MaxComps
  /\ pending' = pending \ {inv}
  /\ comps' = Append(comps,
       Completion(CompletionKey(inv.callback, inv.error), "worker"))
  /\ UNCHANGED <<called, allowed_origins, submitted, requests, lock, poisoned, conns, lpc, cur,
                 resp, dropped>>

\* A completion that matches no pending invocation: a duplicate, a late one,
\* or one for an invocation that did not come through this bridge.  The
\* closure given to on_message belongs to one invocation, so such a call is
\* one of the closure responder() returned.
Stray(id) ==
  /\ Len(comps) < MaxComps
  /\ comps' = Append(comps, ResponderCall(id))
  /\ UNCHANGED <<called, allowed_origins, submitted, requests, lock, poisoned, conns, lpc, cur,
                 pending, resp, dropped>>

\* --------------------------------------------------------- completion
\* The closure of lines 116-137, and the one responder() returns (151-172).
\* Where a call stands: "lock", "remove", "respond" while it runs; "done"
\* once it returned; "poisoned", "notfound", "failed" once it panicked at
\* lock().unwrap(), at remove(..).unwrap(), at respond(..).unwrap().
\* A panic on the listener thread (a closure run inside on_message) ends it.
AfterPanic(k) == IF comps[k].thread = "listener" THEN "dead" ELSE lpc

AfterReturn(k) == IF comps[k].thread = "listener" THEN "accept" ELSE lpc

\* requests.lock().unwrap(): Err on a poisoned mutex, and the unwrap panics.
CompLock(k) ==
  /\ k \in 1..Len(comps)
  /\ comps[k].pc = "lock"
  /\ lock = Free
  /\ IF poisoned
     THEN /\ comps' = [comps EXCEPT ![k].pc = "poisoned"]
          /\ lpc' = AfterPanic(k)
          /\ UNCHANGED lock
     ELSE /\ comps' = [comps EXCEPT ![k].pc = "remove"]
          /\ lock' = k
          /\ UNCHANGED lpc
  /\ UNCHANGED <<called, allowed_origins, submitted, requests, poisoned, conns, cur, pending,
                 resp, dropped>>

\* Variant: the map is emptied (HashMap::drain) and the entry returned.
RemovedAll(store, id) == [i \in Ids |-> NoConn]

\* Variant: the entry is read (HashMap::get) and stays in the map.
RemovedKept(store, id) == store

\* HashMap::remove(&callback.0): the entry leaves the map and is returned.
Removed(store, id) == [store EXCEPT ![id] = NoConn]

\* responder(), line 152: HashMap::remove(&callback.0).
ResponderRemoved(store, id) == [store EXCEPT ![id] = NoConn]

\* The remove of the closure a completion is a call of.
RemovedVia(via, store, id) ==
  IF via = "responder" THEN ResponderRemoved(store, id) ELSE Removed(store, id)

\* .remove(&callback.0).unwrap(): on None the unwrap panics while the guard
\* is still alive (it is a temporary of the statement), which poisons the
\* mutex; the guard is released either way.
CompRemove(k) ==
  /\ k \in 1..Len(comps)
  /\ comps[k].pc = "remove"
  /\ lock = k
  /\ lock' = Free
  /\ IF requests[comps[k].id] = NoConn
     THEN /\ comps' = [comps EXCEPT ![k].pc = "notfound"]
          /\ poisoned' = TRUE
          /\ lpc' = AfterPanic(k)
          /\ UNCHANGED requests
     ELSE /\ comps' = [comps EXCEPT ![k].pc = "respond",
                                    ![k].conn = requests[comps[k].id]]
          /\ requests' = RemovedVia(comps[k].via, requests, comps[k].id)
          /\ UNCHANGED <<poisoned, lpc>>
  /\ UNCHANGED <<called, allowed_origins, submitted, conns, cur, pending, resp, dropped>>

\* Lines 118-134: the response built from the outcome and the stored request.
FinalResponse(o, r, allowed, ok) ==
  Response(StatusOf(o), cors(r.headers, allowed), BodyOf(o), ok)

\* responder(), line 157.
ResponderStatusOf(o) == IF o.kind = "err" THEN 400 ELSE 200

\* Vec<u8>::clone: a copy with the same bytes.
Clone(bytes) == bytes

\* Variant: the raw bytes are serialized as a JSON string like the others.
ResponderBodyAllJson(o) ==
  CASE o.kind = "json" -> ToJsonString(o.json)
    [] o.kind = "raw" -> ToJsonString(JStr(o.raw))
    [] o.kind = "err" -> ToJsonString(o.json)

\* responder(), the match of lines 159-167: Response::from_data(r.clone())
\* for the raw bytes, which the closure only borrows.
ResponderBodyOf(o) ==
  CASE o.kind = "json" -> ToJsonString(o.json)
    [] o.kind = "raw" -> Clone(o.raw)
    [] o.kind = "err" -> ToJsonString(o.json)

\* responder(), lines 153-169.
ResponderResponse(o, r, allowed, ok) ==
  Response(ResponderStatusOf(o), cors(r.headers, allowed), ResponderBodyOf(o), ok)

\* The response of the closure a completion is a call of.
ResponseVia(via, o, r, allowed, ok) ==
  IF via = "responder" THEN ResponderResponse(o, r, allowed, ok)
  ELSE FinalResponse(o, r, allowed, ok)

\* request.respond(r).unwrap(): an Err (the client is gone) panics.
CompRespond(k, o, ok) ==
  /\ k \in 1..Len(comps)
  /\ comps[k].pc = "respond"
  /\ resp' = [resp EXCEPT ![comps[k].conn] =
       Append(@, ResponseVia(comps[k].via, o, conns[comps[k].conn],
                             allowed_origins, ok))]
  /\ comps' = [comps EXCEPT ![k].pc = IF ok THEN "done" ELSE "failed",
                            ![k].outcome = o]
  /\ lpc' = IF ok THEN AfterReturn(k) ELSE AfterPanic(k)
  /\ UNCHANGED <<called, allowed_origins, submitted, requests, lock, poisoned, conns, cur,
                 pending, dropped>>

\* ------------------------------------------------------ specification
Next ==
  \/ \E r \in HttpRequests, ok \in BOOLEAN : Recv(r, ok)
  \/ InsertLock
  \/ Insert
  \/ \E sync \in BOOLEAN : Submit(sync)
  \/ \E inv \in pending : Deliver(inv)
  \/ \E id \in Ids : Stray(id)
  \/ \E k \in 1..MaxComps : CompLock(k)
  \/ \E k \in 1..MaxComps : CompRemove(k)
  \/ \E k \in 1..MaxComps, o \in Outcomes, ok \in BOOLEAN : CompRespond(k, o, ok)

Spec == Init /\ [][Next]_vars

\* The bridge with the collaborators behaving as section 6 of the design
\* requires: the callback id of a new request is not that of an exchange in
\* flight, and the dispatcher runs the completion exactly once per submitted
\* invocation, with that invocation's callback id.  Every thread that can
\* take a step eventually does.  At most MaxComps requests are dispatched,
\* so that the bound on completions never keeps the dispatcher from running
\* the completion of an invocation it accepted.
RecvDistinct(r, ok) ==
  /\ Route(r) = "dispatch" =>
       /\ requests[r.body.callback] = NoConn
       /\ Cardinality({c \in 1..Len(conns) : Route(conns[c]) = "dispatch"})
            < MaxComps
  /\ Recv(r, ok)

NextExact ==
  \/ \E r \in HttpRequests, ok \in BOOLEAN : RecvDistinct(r, ok)
  \/ InsertLock
  \/ Insert
  \/ \E sync \in BOOLEAN : Submit(sync)
  \/ \E inv \in pending : Deliver(inv)
  \/ \E k \in 1..MaxComps : CompLock(k)
  \/ \E k \in 1..MaxComps : CompRemove(k)
  \/ \E k \in 1..MaxComps, o \in Outcomes, ok \in BOOLEAN : CompRespond(k, o, ok)

Fairness ==
  /\ WF_vars(InsertLock)
  /\ WF_vars(Insert)
  /\ WF_vars(\E sync \in BOOLEAN : Submit(sync))
  /\ WF_vars(\E inv \in pending : Deliver(inv))
  /\ \A k \in 1..MaxComps :
       /\ WF_vars(CompLock(k))
       /\ WF_vars(CompRemove(k))
       /\ WF_vars(\E o \in Outcomes, ok \in BOOLEAN : CompRespond(k, o, ok))

SpecExact == Init /\ [][NextExact]_vars /\ Fairness

\* ------------------------------------------------- bootstrap script
\* The script of initialization_script() (lines 175-200) as the client: the
\* replacement of __TAURI_INTERNALS__.postMessage and its 'load' listener.

\* The messages the UI posts: {cmd, callback, error, payload}.
Messages == {m \in [callback : Ids, error : Ids] : m.callback # m.error}

\* metadata.currentWindow.label: the window the script runs in, or one the
\* application has closed since.
ScriptLabels == {"m", "g"}

\* The Origin header the browser adds to the cross-origin POST.
ScriptOrigins == {"http://a", "http://b"}

\* Lines 192-194: open('POST', 'http://localhost:<port>/' + label),
\* setRequestHeader('Content-Type', 'application/json'),
\* send(JSON.stringify(message)).
ScriptRequest(m, label, origin) ==
  [method |-> "POST",
   url |-> <<"/", label>>,
   headers |-> <<Hdr("Content-Type", "application/json"), Hdr("Origin", origin)>>,
   body |-> [kind |-> "envelope", callback |-> m.callback, error |-> m.error]]

\* JSON.parse(this.response): whether the text is JSON; it throws otherwise.
JsonParses(text) == text \in {"\"hi\"", "{\"code\":1}", "null"}

\* Variant: a body that does not parse leaves `success` as the status set it.
ScriptSuccessStatusOnly(status, text) == status = 200

\* Lines 183-189: success = this.status === 200, and false if parse throws.
ScriptSuccess(status, text) == status = 200 /\ JsonParses(text)

\* Line 190: window[`_${success ? message.callback : message.error}`](arg).
ScriptSlot(m, status, text) ==
  IF ScriptSuccess(status, text) THEN m.callback ELSE m.error

\* postMessage(message): the request reaches the listener.
PostMessage(m, label, origin, ok) == Recv(ScriptRequest(m, label, origin), ok)

\* The 'load' event of the request of connection c: it fires once, when the
\* response has arrived, and the listener invokes one slot.
Load(c) ==
  /\ c \in 1..Len(conns)
  /\ Len(resp[c]) >= 1
  /\ resp[c][1].delivered
  /\ \A e \in called : e.conn # c
  /\ called' = called \cup
       {[conn |-> c,
         slot |-> ScriptSlot(conns[c].body, resp[c][1].status, resp[c][1].body),
         parsed |-> JsonParses(resp[c][1].body)]}
  /\ UNCHANGED <<allowed_origins, requests, lock, poisoned, conns, lpc, cur,
                 pending, comps, resp, dropped, submitted>>

NextScript ==
  \/ \E m \in Messages, label \in ScriptLabels, origin \in ScriptOrigins,
        ok \in BOOLEAN : PostMessage(m, label, origin, ok)
  \/ InsertLock
  \/ Insert
  \/ \E sync \in BOOLEAN : Submit(sync)
  \/ \E inv \in pending : Deliver(inv)
  \/ \E id \in Ids : Stray(id)
  \/ \E k \in 1..MaxComps : CompLock(k)
  \/ \E k \in 1..MaxComps : CompRemove(k)
  \/ \E k \in 1..MaxComps, o \in Outcomes, ok \in BOOLEAN : CompRespond(k, o, ok)
  \/ \E c \in 1..MaxConns : Load(c)

SpecScript == Init /\ [][NextScript]_vars

\* ------------------------------------------------------------- claims
Conns == 1..Len(conns)

Comps == 1..Len(comps)

Holds(k) == comps[k].conn # NoConn

InStore(c) == \E id \in Ids : requests[id] = c

\* The completion reached respond(): it returned, or respond() itself failed.
Responded(k) == comps[k].pc \in {"done", "failed"}

\* The completion found no entry under its id.
SawNotFound(k) == comps[k].pc = "notfound"

\* C1: a completion only ever takes, and answers, the connection whose
\* request carried its callback id as the success callback; a completion
\* that reached respond() wrote the one response of that connection, and no
\* connection has more than one response written on it.
C1_CompletionReachesItsConnection ==
  /\ \A k \in Comps :
       Holds(k) => conns[comps[k].conn].body.callback = comps[k].id
  /\ \A k \in Comps : Responded(k) => Len(resp[comps[k].conn]) = 1
  /\ \A c \in Conns : Len(resp[c]) <= 1

\* C1 witness: two exchanges under distinct ids, completed in the order
\* opposite to their insertion, each answered on its own connection.
C1_Witness ==
  /\ Len(comps) >= 2
  /\ comps[1].pc = "done" /\ comps[2].pc = "done"
  /\ comps[1].conn = 2 /\ comps[2].conn = 1
  /\ comps[1].id # comps[2].id
  /\ resp[1][1].delivered /\ resp[2][1].delivered

\* C2 (as claimed): a completion whose id is not in the store has no effect:
\* the step that looks the id up neither panics nor changes the mutex, the
\* store or any connection.
C2_UnknownIdHasNoEffect ==
  [][\A k \in Comps :
       (comps[k].pc = "remove" /\ requests[comps[k].id] = NoConn
          /\ comps'[k].pc # "remove")
       => /\ comps'[k].pc # "notfound"
          /\ poisoned' = poisoned
          /\ requests' = requests
          /\ resp' = resp]_vars

\* C3 (as claimed): whatever completions came before, a decoded request that
\* the listener is about to store does get stored: locking the store at
\* line 113 never ends the listener thread.
C3_StaysOperational ==
  [][(lpc = "insert" /\ lpc' # "insert") => lpc' = "inserting"]_vars

\* C4: no two completions ever hold the same connection, and a connection a
\* completion holds is no longer in the store, so that a second completion
\* with the same id finds nothing.
C4_AtMostOneTakes ==
  /\ \A j, k \in Comps :
       (j # k /\ Holds(j)) => comps[j].conn # comps[k].conn
  /\ \A k \in Comps : Holds(k) => ~InStore(comps[k].conn)

\* C4 witness: two completions with the same id, one holding the exchange,
\* the other having found nothing.
C4_Witness ==
  \E j, k \in Comps :
    /\ j # k
    /\ comps[j].id = comps[k].id
    /\ Holds(j)
    /\ SawNotFound(k)

\* C5: with distinct in-flight ids and exactly one completion per submitted
\* invocation, every exchange that enters the store eventually leaves it and
\* has its response written on its connection (respond() is called on it
\* once; whether the bytes arrive is up to the transport).
C5_NoExchangeLeaked ==
  \A c \in 1..MaxConns :
    (c \in Conns /\ InStore(c))
      ~> (c \in Conns /\ ~InStore(c) /\ Len(resp[c]) = 1)

\* C5 witness: an exchange that was stored, completed by the dispatcher on
\* a thread of its own, is out of the store and answered.
C5_Witness ==
  \E k \in Comps :
    /\ comps[k].pc = "done"
    /\ comps[k].thread = "worker"
    /\ ~InStore(comps[k].conn)
    /\ Len(resp[comps[k].conn]) = 1
    /\ resp[comps[k].conn][1].delivered

\* The values of the Access-Control-Allow-Origin headers of a response.
Acao(r) ==
  LET hs == SelectSeq(r.headers,
                      LAMBDA h : h.field = "Access-Control-Allow-Origin")
  IN [i \in 1..Len(hs) |-> hs[i].value]

HasFixedCors(r) ==
  /\ Contains(r.headers, Hdr("Access-Control-Allow-Headers", "*"))
  /\ Contains(r.headers, Hdr("Access-Control-Allow-Methods", "POST, OPTIONS"))

\* The listener answered the connection itself and nothing else was done
\* with it: it was not stored, not submitted, not dropped.
Terminal(c) ==
  /\ Len(resp[c]) = 1
  /\ resp[c][1].body = ""
  /\ HasFixedCors(resp[c][1])
  /\ ~InStore(c)
  /\ cur # c
  /\ c \notin submitted
  /\ c \notin dropped
  /\ \A k \in Comps : comps[k].conn # c

\* The first path segment of the request names no window.
UnknownSurface(r) == r.url[1] = "/" /\ <<r.url[2]>> \notin Windows

\* C6: a non-OPTIONS request to an unknown surface is answered 404 with the
\* CORS headers as soon as it is handled, and is never stored or submitted.
C6_UnknownSurfaceIs404 ==
  \A c \in Conns :
    (conns[c].method # "OPTIONS" /\ UnknownSurface(conns[c]))
      => (Terminal(c) /\ resp[c][1].status = 404)

\* C6 witness: a POST to /g, with no Origin header, was answered 404 while
\* no exchange is stored.
C6_Witness ==
  \E c \in Conns :
    /\ conns[c].method = "POST"
    /\ conns[c].url = <<"/", "g">>
    /\ conns[c].headers = <<>>
    /\ Len(resp[c]) = 1
    /\ resp[c][1].status = 404
    /\ resp[c][1].delivered
    /\ \A id \in Ids : requests[id] = NoConn

\* C7: an OPTIONS request is answered 200 with an empty body and the two
\* fixed CORS headers whatever its path, and nothing else is done with it.
C7_PreflightIs200 ==
  \A c \in Conns :
    conns[c].method = "OPTIONS"
      => (Terminal(c) /\ resp[c][1].status = 200)

\* C7 witness: preflights to an existing and to an unknown surface, both
\* answered 200.
C7_Witness ==
  \E c, d \in Conns :
    /\ conns[c].method = "OPTIONS" /\ conns[c].url = <<"/", "g">>
    /\ conns[d].method = "OPTIONS" /\ conns[d].url = <<"/", "m">>
    /\ resp[c][1].status = 200 /\ resp[c][1].delivered
    /\ resp[d][1].status = 200 /\ resp[d][1].delivered

\* C8: with "*" in the allow-list every response written carries exactly
\* Access-Control-Allow-Origin: *, whatever the request's Origin.
C8_WildcardAlwaysStar ==
  Contains(allowed_origins, "*")
    => \A c \in Conns : \A i \in 1..Len(resp[c]) : Acao(resp[c][i]) = <<"*">>

\* C8 witness: under a wildcard allow-list, a request without Origin was
\* answered by the listener and an exchange whose Origin is not listed was
\* answered by its completion.
C8_Witness ==
  /\ Contains(allowed_origins, "*")
  /\ \E c \in Conns :
       /\ FindHeader(conns[c].headers, "Origin") = <<>>
       /\ Len(resp[c]) = 1
  /\ \E k \in Comps :
       /\ comps[k].pc = "done"
       /\ FindHeader(conns[comps[k].conn].headers, "Origin")[1].value = "http://b"

\* What section 4.2 prescribes without a wildcard: the Origin of the request
\* is echoed iff it equals an entry of the allow-list.
EchoOf(r) ==
  LET o == FindHeader(r.headers, "Origin")
  IN IF o # <<>> /\ (\E i \in 1..Len(allowed_origins) : allowed_origins[i] = o[1].value)
     THEN <<o[1].value>>
     ELSE <<>>

\* C9: without "*" in the allow-list, each response written on a connection
\* echoes the Origin of that connection's own request iff it is listed, and
\* carries no Access-Control-Allow-Origin otherwise.
C9_EchoIffListed ==
  ~Contains(allowed_origins, "*")
    => \A c \in Conns : \A i \in 1..Len(resp[c]) :
         Acao(resp[c][i]) = EchoOf(conns[c])

\* C9 witness: two exchanges answered by their completions, one with a
\* listed Origin (echoed), one with an unlisted Origin (no header).
C9_Witness ==
  /\ ~Contains(allowed_origins, "*")
  /\ \E j, k \in Comps :
       /\ comps[j].pc = "done" /\ comps[k].pc = "done"
       /\ Acao(resp[comps[j].conn][1]) = <<"http://a">>
       /\ FindHeader(conns[comps[k].conn].headers, "Origin")[1].value = "http://b"
       /\ Acao(resp[comps[k].conn][1]) = <<>>

\* C10: the response a completion writes has status 200 for a success and
\* 400 for an error, and its body is the payload: the JSON text of a JSON
\* value, the bytes of a raw body, the JSON text of the error.
C10_StatusAndBody ==
  \A k \in Comps :
    Responded(k) =>
      LET r == resp[comps[k].conn][Len(resp[comps[k].conn])]
          o == comps[k].outcome
      IN /\ o.kind \in {"json", "raw"} <=> r.status = 200
         /\ o.kind = "err" <=> r.status = 400
         /\ o.kind = "json" /\ o.json = JStr("hi") => r.body = "\"hi\""
         /\ o.kind = "raw" => r.body = o.raw
         /\ o.kind = "err" /\ o.json = JObj("code1") => r.body = "{\"code\":1}"

\* C10 witness: an error outcome answered 400 with the JSON text of the
\* error, and a raw success answered 200 with the bytes.
C10_Witness ==
  \E j, k \in Comps :
    /\ comps[j].pc = "done" /\ comps[j].outcome.kind = "err"
    /\ resp[comps[j].conn][1].status = 400
    /\ resp[comps[j].conn][1].body = "{\"code\":1}"
    /\ comps[k].pc = "done" /\ comps[k].outcome.kind = "raw"
    /\ resp[comps[k].conn][1].status = 200
    /\ resp[comps[k].conn][1].body = "hi"

\* A non-OPTIONS request to an existing surface that does not decode: its
\* body is no JSON envelope, its Content-Type is not application/json, it has
\* no Origin header, or its Origin is no absolute URL.
Malformed(r) ==
  /\ r.method # "OPTIONS"
  /\ r.url[1] = "/" /\ <<r.url[2]>> \in Windows
  /\ \/ ContentType(r.headers) # "application/json"
     \/ FindHeader(r.headers, "Origin") = <<>>
     \/ r.body.kind # "envelope"
     \/ ~UrlParseOk(FindHeader(r.headers, "Origin")[1].value)

\* C11 (as claimed): a malformed request to an existing surface is never
\* stored and never submitted, and rejecting it leaves the listener accepting:
\* right after the request was handled the listener is back at the head of
\* its loop, so that a resent request can be served.
C11_MalformedIsRejectedAlone ==
  \A c \in Conns :
    Malformed(conns[c]) =>
      /\ ~InStore(c)
      /\ c \notin submitted
      /\ \A k \in Comps : comps[k].conn # c
      /\ c = Len(conns) => lpc = "accept"

\* The number of responses written on connection c so far.
Written(rs, c) == IF c \in 1..Len(rs) THEN Len(rs[c]) ELSE 0

\* C12 (as claimed): a step in which respond() fails on a connection
\* (preflight, 404 or final response) does not end the listener thread, and
\* leaves no entry for that connection in the store.
C12_TransportFailureIsContained ==
  [][\A c \in 1..Len(resp') :
       (/\ Written(resp', c) > Written(resp, c)
        /\ ~resp'[c][Len(resp'[c])].delivered)
       => /\ lpc # "dead" => lpc' # "dead"
          /\ \A id \in Ids : requests'[id] # c]_vars

\* The slots invoked for the message posted on connection c.
CalledFor(c) == {e \in called : e.conn = c}

C14_InsertedBeforeSubmitted ==
  /\ lpc = "submit" => requests[conns[cur].body.callback] = cur
  /\ \A inv \in pending : requests[inv.callback] = inv.conn
  /\ \A k \in Comps :
       /\ comps[k].pc \in {"lock", "remove"} =>
            /\ requests[comps[k].id] # NoConn
            /\ requests[comps[k].id] \in submitted
       /\ ~SawNotFound(k)

\* C14 witness: a completion the dispatcher ran inside the submission call
\* found its exchange and answered it.
C14_Witness ==
  \E k \in Comps :
    /\ comps[k].thread = "listener"
    /\ comps[k].pc = "done"
    /\ comps[k].conn \in submitted
    /\ conns[comps[k].conn].body.callback = comps[k].id

\* The lock is held only inside one insert or one remove, and its holder can
\* always take the step that releases it; the listener does not hold it when
\* it submits or runs a closure, and it can always submit.
LockScope ==
  /\ lock \in {Free, ListenerThread} \cup Comps
  /\ lock = ListenerThread => (lpc = "inserting" /\ ENABLED Insert)
  /\ \A k \in Comps :
       lock = k => (comps[k].pc = "remove" /\ ENABLED CompRemove(k))
  /\ lpc \in {"accept", "submit", "callback", "dead"} => lock # ListenerThread
  /\ lpc = "submit" => ENABLED Submit(FALSE)

\* C15: the store lock is held only for one insert or one remove and never
\* by the listener while it submits, no thread holding it waits for anything
\* (so no thread waits for it forever), and a submission ends with the
\* listener back at the head of its loop while the invocation is still
\* pending, or with the dispatcher running the closure inside the call.
C15_NeverWaitsOnResult ==
  /\ []LockScope
  /\ [][(lpc = "submit" /\ lpc' # "submit")
          => \/ (lpc' = "accept" /\ pending' # pending /\ comps' = comps)
             \/ (lpc' = "callback" /\ pending' = pending
                   /\ comps'[Len(comps')].thread = "listener")]_vars

\* C15 witness: the listener has answered a later connection while an
\* earlier invocation is still pending with its exchange in the store.
C15_Witness ==
  \E inv \in pending :
    /\ InStore(inv.conn)
    /\ lpc = "accept"
    /\ \E c \in Conns : c > inv.conn /\ Len(resp[c]) = 1 /\ resp[c][1].delivered

\* The connections whose entry was replaced in the store: stored, submitted,
\* and dropped since.
Overwritten == dropped \cap submitted

\* C16: an insert under an id already present replaces the entry: afterwards
\* the id maps to the later connection, the earlier connection is stored
\* nowhere and the other entries are as before; the earlier connection is
\* never held by a completion nor answered, and a completion that finds an
\* entry under its id takes the connection the id maps to at that time.
C16_LastWriteWins ==
  /\ [][(/\ lpc = "inserting" /\ lpc' = "submit"
         /\ requests[conns[cur].body.callback] # NoConn)
        => LET id == conns[cur].body.callback
               old == requests[id]
           IN /\ requests'[id] = cur
              /\ old # cur
              /\ \A i \in Ids : requests'[i] # old
              /\ \A i \in Ids \ {id} : requests'[i] = requests[i]]_vars
  /\ [](\A c \in Overwritten :
          /\ Len(resp[c]) = 0
          /\ ~InStore(c)
          /\ \A k \in Comps : comps[k].conn # c)
  /\ [][\A k \in Comps :
          (comps[k].pc = "remove" /\ comps'[k].pc = "respond")
            => comps'[k].conn = requests[comps[k].id]]_vars

\* C16 witness: two requests with the same callback id; the second replaced
\* the first in the store and a completion for the id answered the second.
C16_Witness ==
  \E c, d \in Conns : \E k \in Comps :
    /\ c < d
    /\ c \in Overwritten
    /\ conns[c].body.callback = conns[d].body.callback
    /\ comps[k].id = conns[d].body.callback
    /\ comps[k].conn = d
    /\ comps[k].pc = "done"
    /\ Len(resp[d]) = 1 /\ Len(resp[c]) = 0

\* C17: the store is keyed by the success-callback id only: every entry is
\* under the callback id of its connection's request, never under its error
\* id; the completion the dispatcher runs for an invocation looks up that
\* invocation's callback id, and it removes the entry under that id before
\* it has looked at the outcome, so for a success and for an error alike.
C17_KeyIsSuccessCallback ==
  /\ [](\A id \in Ids :
          requests[id] # NoConn =>
            /\ conns[requests[id]].body.callback = id
            /\ conns[requests[id]].body.error # id)
  /\ [][\A inv \in pending :
          (pending' = pending \ {inv} /\ Len(comps') = Len(comps) + 1)
            => /\ comps'[Len(comps')].id = inv.callback
               /\ comps'[Len(comps')].id # inv.error]_vars
  /\ [][(lpc = "submit" /\ lpc' = "callback")
          => /\ comps'[Len(comps')].id = conns[cur].body.callback
             /\ comps'[Len(comps')].id # conns[cur].body.error]_vars
  /\ [][\A k \in Comps :
          (comps[k].pc = "remove" /\ comps'[k].pc = "respond")
            => /\ comps[k].outcome.kind = "unread"
               /\ requests'[comps[k].id] = NoConn
               /\ conns[comps'[k].conn].body.callback = comps[k].id
               /\ conns[comps'[k].conn].body.error # comps[k].id]_vars

\* C17 witness: an error outcome was answered on the connection stored under
\* the completion's id, which is the request's callback id, while the
\* request's error id is the other one.
C17_Witness ==
  \E k \in Comps :
    /\ comps[k].pc = "done"
    /\ comps[k].outcome.kind = "err"
    /\ conns[comps[k].conn].body.callback = comps[k].id
    /\ conns[comps[k].conn].body.error # comps[k].id
    /\ resp[comps[k].conn][1].status = 400

\* C18: a step of a completion for callback id X leaves every entry stored
\* under another id as it was, changes the entry under X only by removing it,
\* and writes a response on no connection other than the one it took from
\* under X.
C18_CompletionFrame ==
  [][\A k \in Comps :
       comps'[k] # comps[k] =>
         /\ \A id \in Ids \ {comps[k].id} : requests'[id] = requests[id]
         /\ requests'[comps[k].id] \in {requests[comps[k].id], NoConn}
         /\ comps[k].pc = "remove" =>
              comps'[k].conn \in {NoConn, requests[comps[k].id]}
         /\ Len(resp') = Len(resp)
         /\ \A c \in Conns :
              resp'[c] # resp[c] =>
                /\ c = comps[k].conn
                /\ conns[c].body.callback = comps[k].id]_vars

\* C18 witness: two exchanges stored under different ids; the completion
\* for one of them answered its connection while the other exchange is still
\* in the store, unanswered.
C18_Witness ==
  \E k \in Comps : \E id \in Ids \ {comps[k].id} :
    /\ comps[k].pc = "done"
    /\ requests[id] # NoConn
    /\ requests[id] < comps[k].conn
    /\ Len(resp[requests[id]]) = 0
    /\ Len(resp[comps[k].conn]) = 1

\* Who holds the Request of connection c: the listener from the accept until
\* the insert (afterwards it keeps the decoded payload only), the store, a
\* completion from its remove until its respond().
ListenerHolds(c) == cur = c /\ lpc \in {"insert", "inserting"}

StoreKeys(c) == {id \in Ids : requests[id] = c}

CompletionsHolding(c) ==
  {k \in Comps : comps[k].conn = c /\ comps[k].pc = "respond"}

Holders(c) ==
  (IF ListenerHolds(c) THEN 1 ELSE 0)
    + Cardinality(StoreKeys(c)) + Cardinality(CompletionsHolding(c))

\* The Request of connection c still exists: respond() has not consumed it
\* and it was not dropped.
Alive(c) == Len(resp[c]) = 0 /\ c \notin dropped

\* C19: every connection whose Request still exists is held by exactly one
\* of the listener, the store (under one id) and one completion, and one
\* whose Request was consumed or dropped is held by none; every connection
\* in the store is one whose request was decoded for an existing surface and
\* on which no response has been written.
C19_ExclusiveOwnership ==
  /\ \A c \in Conns : Holders(c) = IF Alive(c) THEN 1 ELSE 0
  /\ \A c \in Conns :
       InStore(c) =>
         /\ conns[c].method = "POST"
         /\ ~UnknownSurface(conns[c])
         /\ ~Malformed(conns[c])
         /\ Len(resp[c]) = 0

\* C19 witness: two owners at once: a completion holds the request it has
\* removed and not answered yet, while the listener holds a later request
\* with the same callback id that it is about to store.
C19_Witness ==
  \E c, d \in Conns :
    /\ c < d
    /\ CompletionsHolding(c) # {}
    /\ ListenerHolds(d)
    /\ conns[c].body.callback = conns[d].body.callback
    /\ Holders(c) = 1 /\ Holders(d) = 1

\* C20: the closure built in start and the one responder() returns are
\* equivalent.  In every reachable state, for every callback id and outcome,
\* the two make the same change to the store and build the same response
\* (status, headers, body) for the connection under the id; and every step a
\* call of either closure takes is the step the other one prescribes.
C20_ClosuresEquivalent ==
  /\ [](\A id \in Ids :
          /\ Removed(requests, id) = ResponderRemoved(requests, id)
          /\ requests[id] # NoConn =>
               \A o \in Outcomes, ok \in BOOLEAN :
                 FinalResponse(o, conns[requests[id]], allowed_origins, ok)
                   = ResponderResponse(o, conns[requests[id]], allowed_origins, ok))
  /\ [][\A k \in Comps :
          /\ (comps[k].pc = "remove" /\ comps'[k].pc = "respond") =>
               /\ requests' = Removed(requests, comps[k].id)
               /\ requests' = ResponderRemoved(requests, comps[k].id)
          /\ (comps[k].pc = "respond" /\ comps'[k].pc # "respond") =>
               LET c == comps[k].conn
                   o == comps'[k].outcome
                   ok == comps'[k].pc = "done"
                   w == resp'[c][Len(resp'[c])]
               IN /\ w = FinalResponse(o, conns[c], allowed_origins, ok)
                  /\ w = ResponderResponse(o, conns[c], allowed_origins, ok)]_vars

\* C20 witness: a call of the start closure and a call of the responder()
\* closure each answered an exchange with a raw success (the one outcome the
\* two handle with different code), with the same status and body.
C20_Witness ==
  \E j, k \in Comps :
    /\ comps[j].via = "start" /\ comps[k].via = "responder"
    /\ comps[j].pc = "done" /\ comps[k].pc = "done"
    /\ comps[j].outcome.kind = "raw" /\ comps[k].outcome.kind = "raw"
    /\ resp[comps[j].conn][1].status = resp[comps[k].conn][1].status
    /\ resp[comps[j].conn][1].body = resp[comps[k].conn][1].body

====
